---- MODULE Spec2Model ----
(***************************************************************************)
(* Model of the video analysis pipeline of the exercise form checker       *)
(* (app.py: analyze_video, calculate_exercise_angles, detect_mistakes;     *)
(* dataset_angles.py: calculate_angle).                                    *)
(*                                                                         *)
(* Units: angles are integer degrees; a classifier probability p is kept   *)
(* in per-mille (prob = 1000*p), so that p*100 - 10*m is prob - 100*m in   *)
(* tenths of a percent and int()/round() on it are exact.                  *)
(***************************************************************************)
EXTENDS Integers, Sequences, FiniteSets, TLC

VARIABLES
    AI_AVAILABLE,      \* app.py:23/28 module flag set at import
    exercise_type,     \* argument of analyze_video
    pc,                \* position inside analyze_video
    mean_angles,       \* angle_stats["mean"] once loaded, <<>> before
    cap,               \* input capture: "none", "failed", "open", "released"
    out,               \* output writer: "none", "open", "unopened", "released"
    codec,             \* fourcc of the writer last constructed
    output_filename,   \* name given to the writer, None before
    frame_count,       \* frames read so far
    all_keypoints,     \* rolling history of angle vectors
    keypoints_seq,     \* sliding window given to the classifier on the last frame
    frame_accuracies,  \* per-frame accuracies
    all_mistakes,      \* concatenated per-frame mistake lists
    written,           \* number of frames the writer has stored
    detected,          \* number of frames on which pose.process returned landmarks
    outcome,           \* how analyze_video ended: kind "running", "return", "raise"
    session,           \* flask session: key analysis_result
    history,           \* ExerciseHistory rows committed by this run
    artifacts,         \* what the model-file checks and the loads found
    prob_correct,      \* classifier output on the last frame, per-mille
    mistakes,          \* detect_mistakes result on the last frame
    now,               \* int(time.time())
    det,               \* what pose.process did on the last frame read
    response,          \* what process_video answered, None before
    call,              \* a direct call of one of the pure functions
    reply,             \* what that call gave back
    workers,           \* two analyses running side by side
    pose_user,         \* the worker whose frame the global pose object saw last
    user_sessions,     \* table user_session: row n has session_token n
    user_level,        \* the user's row of table user_level
    user_challenges,   \* challenge ids with a completed user_daily_challenge row
    user_achievements  \* names of the user's user_achievement rows

vars == <<AI_AVAILABLE, exercise_type, pc, mean_angles, cap, out, codec,
          output_filename, frame_count, all_keypoints, keypoints_seq,
          frame_accuracies, all_mistakes, written, detected, outcome,
          session, history, artifacts, prob_correct, mistakes, now,
          det, response, call, reply, workers, pose_user,
          user_sessions, user_level, user_challenges, user_achievements>>

(***************************************************************************)
(* Bounds of the model.                                                    *)
(***************************************************************************)
MaxFrames == 2          \* longest video of the exhaustive specification
MaxLongFrames == 62     \* longest video of the long-video specification

None == <<>>            \* Python None (no vector of the program is empty)

EmptySession == <<>>    \* a session without keys

(***************************************************************************)
(* Static configuration.                                                   *)
(***************************************************************************)
KnownKinds == {"pushup", "pullup", "plank", "squat", "tricep_dips"}

ExerciseTypes == KnownKinds \cup {"lunge"}

EXERCISES ==
    [k \in KnownKinds |->
        CASE k = "pushup"      -> [name |-> "Push-ups",    input_size |-> 5]
          [] k = "pullup"      -> [name |-> "Pull-ups",    input_size |-> 2]
          [] k = "plank"       -> [name |-> "Plank",       input_size |-> 3]
          [] k = "squat"       -> [name |-> "Squats",      input_size |-> 5]
          [] k = "tricep_dips" -> [name |-> "Tricep Dips", input_size |-> 4]]

seq_len == 60

\* zeros filled with the angle of a straight joint
zeros_straight(n) == [i \in 1..n |-> 180]

zeros(n) == [i \in 1..n |-> 0]

Min(a, b) == IF a < b THEN a ELSE b

Max(a, b) == IF a > b THEN a ELSE b

\* Abs without the change of sign
Abs_signed(a) == a

Abs(a) == IF a < 0 THEN -a ELSE a

(***************************************************************************)
(* dataset_angles.calculate_angle.  Points are pairs of integer pixel      *)
(* coordinates.  cosine = ba.bc / (|ba||bc| + 1e-6), clipped to [-1, 1];   *)
(* the result is arccos in degrees, here to the nearest degree: the number *)
(* of half-degree marks k - 0.5 (k = 1..180) whose cosine exceeds the      *)
(* cosine of the angle.  CosSq[k] is cos^2((k - 0.5) deg) * 10^6.  With    *)
(* coincident points the numerator is 0 and the epsilon keeps the quotient *)
(* defined: cosine 0, angle 90.                                            *)
(***************************************************************************)
CosSq ==
 << 999923, 999314, 998097, 996273, 993844, 990813, 987185, 982962, 978152,
    972759, 966790, 960252, 953153, 945503, 937309, 928583, 919335, 909576,
    899317, 888572, 877354, 865676, 853553, 840999, 828029, 814660, 800907,
    786788, 772319, 757519, 742404, 726995, 711309, 695365, 679183, 662784,
    646185, 629409, 612475, 595404, 578217, 560934, 543577, 526167, 508726,
    491273, 473832, 456422, 439065, 421782, 404595, 387524, 370590, 353814,
    337215, 320816, 304634, 288690, 273004, 257595, 242480, 227680, 213211,
    199092, 185339, 171970, 159000, 146446, 134323, 122645, 111427, 100682,
    90423, 80664, 71416, 62690, 54496, 46846, 39747, 33209, 27240,
    21847, 17037, 12814, 9186, 6155, 3726, 1902, 685, 76 >>

\* cosine = dot / sqrt(nn) lies strictly below cos((k - 0.5) deg)
CosineBelow(dot, nn, k) ==
    IF k <= 90
    THEN IF dot < 0 THEN TRUE  ELSE dot * dot * 1000000 < CosSq[k] * nn
    ELSE IF dot >= 0 THEN FALSE ELSE dot * dot * 1000000 > CosSq[181 - k] * nn

\* calculate_angle measured the whole way round, from bc to ba: angles on
\* one side of the joint come out above 180
calculate_angle_reflex(a, b, c) ==
    LET ba    == <<a[1] - b[1], a[2] - b[2]>>
        bc    == <<c[1] - b[1], c[2] - b[2]>>
        dot   == ba[1] * bc[1] + ba[2] * bc[2]
        cross == ba[1] * bc[2] - ba[2] * bc[1]
        nn    == (ba[1] * ba[1] + ba[2] * ba[2]) * (bc[1] * bc[1] + bc[2] * bc[2])
        angle == IF nn = 0 THEN 90
                 ELSE Cardinality({k \in 1..180 : CosineBelow(dot, nn, k)})
    IN  IF cross > 0 THEN 360 - angle ELSE angle

\* calculate_angle without the epsilon: with coincident points the quotient
\* is 0/0, not a number, here -1
calculate_angle_no_epsilon(a, b, c) ==
    LET ba  == <<a[1] - b[1], a[2] - b[2]>>
        bc  == <<c[1] - b[1], c[2] - b[2]>>
        dot == ba[1] * bc[1] + ba[2] * bc[2]
        nn  == (ba[1] * ba[1] + ba[2] * ba[2]) * (bc[1] * bc[1] + bc[2] * bc[2])
    IN  IF nn = 0 THEN -1
        ELSE Cardinality({k \in 1..180 : CosineBelow(dot, nn, k)})

calculate_angle(a, b, c) ==
    LET ba  == <<a[1] - b[1], a[2] - b[2]>>
        bc  == <<c[1] - b[1], c[2] - b[2]>>
        dot == ba[1] * bc[1] + ba[2] * bc[2]
        nn  == (ba[1] * ba[1] + ba[2] * ba[2]) * (bc[1] * bc[1] + bc[2] * bc[2])
    IN  IF nn = 0 THEN 90
        ELSE Cardinality({k \in 1..180 : CosineBelow(dot, nn, k)})

(***************************************************************************)
(* Landmarks of a frame: keypoints_flat, as a function from the landmark   *)
(* index 0..32 to its pixel point.  Three poses are used as inputs.        *)
(***************************************************************************)
Landmarks == 0..32

\* body upright, arms stretched sideways: every joint straight
PoseStanding ==
    [i \in Landmarks |->
        CASE i \in {11, 12} -> <<1, 0>>
          [] i \in {13, 14} -> <<2, 0>>
          [] i \in {15, 16} -> <<3, 0>>
          [] i \in {23, 24} -> <<1, 1>>
          [] i \in {25, 26} -> <<1, 2>>
          [] i \in {27, 28} -> <<1, 3>>
          [] OTHER          -> <<0, 0>>]

\* left side bent at elbow, hip and knee, right side straight
PoseBent ==
    [i \in Landmarks |->
        CASE i \in {11, 12} -> <<0, 0>>
          [] i \in {13, 14} -> <<1, 0>>
          [] i = 15         -> <<1, 1>>
          [] i = 16         -> <<2, 0>>
          [] i \in {23, 24} -> <<0, 1>>
          [] i = 25         -> <<1, 1>>
          [] i = 27         -> <<1, 2>>
          [] i = 26         -> <<0, 2>>
          [] i = 28         -> <<0, 3>>
          [] OTHER          -> <<0, 0>>]

\* every landmark on the same pixel
PoseCollapsed == [i \in Landmarks |-> <<0, 0>>]

Poses == {PoseStanding, PoseBent, PoseCollapsed}

(***************************************************************************)
(* app.calculate_exercise_angles                                           *)
(***************************************************************************)
calculate_exercise_angles(kp, ex) ==
    CASE ex = "pushup" ->
           << calculate_angle(kp[11], kp[13], kp[15]),
              calculate_angle(kp[12], kp[14], kp[16]),
              calculate_angle(kp[11], kp[23], kp[25]),
              calculate_angle(kp[23], kp[25], kp[27]),
              calculate_angle(kp[24], kp[26], kp[28]) >>
      [] ex = "pullup" ->
           << calculate_angle(kp[15], kp[13], kp[11]),
              calculate_angle(kp[13], kp[11], kp[23]) >>
      [] ex = "plank" ->
           << calculate_angle(kp[11], kp[23], kp[27]),
              calculate_angle(kp[11], kp[13], kp[15]),
              calculate_angle(kp[11], kp[23], kp[25]) >>
      [] ex = "squat" ->
           << calculate_angle(kp[23], kp[25], kp[27]),
              calculate_angle(kp[24], kp[26], kp[28]),
              calculate_angle(kp[11], kp[23], kp[25]),
              calculate_angle(kp[11], kp[24], kp[26]),
              calculate_angle(kp[11], kp[23], kp[27]) >>
      [] ex = "tricep_dips" ->
           << calculate_angle(kp[11], kp[13], kp[15]),
              calculate_angle(kp[12], kp[14], kp[16]),
              calculate_angle(kp[13], kp[11], kp[23]),
              calculate_angle(kp[14], kp[12], kp[24]) >>
      [] OTHER -> None

(***************************************************************************)
(* app.detect_mistakes.  An average (a + b) / 2 > t is compared as         *)
(* a + b > 2 * t, which is the same over the integers.                     *)
(***************************************************************************)
\* AppendIf without the test
AppendIf_always(s, cond, msg) == Append(s, msg)

AppendIf(s, cond, msg) == IF cond THEN Append(s, msg) ELSE s

\* detect_mistakes with the plank's back angle compared with its mean, as the
\* other components are, and not with the fixed 180
detect_mistakes_plank_mean_relative(cur, mean, ex) ==
    CASE ex = "pushup" ->
           LET m1 == AppendIf(<<>>, cur[1] + cur[2] > 2 * (mean[1] + 10),
                              "Go lower - bend elbows more")
               m2 == AppendIf(m1, Abs(cur[3] - mean[3]) > 15,
                              "Keep back straight")
           IN  AppendIf(m2, cur[4] + cur[5] > 2 * (mean[4] + 10),
                        "Knees bent - keep legs straight")
      [] ex = "pullup" ->
           LET m1 == AppendIf(<<>>, cur[1] > mean[1] + 15,
                              "Pull higher - bend the elbows more at top")
               m2 == AppendIf(m1, cur[2] > mean[2] + 15,
                              "Drive shoulders up - reach the bar higher")
           IN  AppendIf(m2, cur[2] < mean[2] - 20,
                        "Control the descent - don't drop too fast")
      [] ex = "plank" ->
           LET m1 == IF Abs(cur[1] - mean[1]) > 15
                     THEN IF cur[1] < mean[1] - 15
                          THEN <<"Hips too high - lower your hips">>
                          ELSE <<"Hips sagging - raise your hips">>
                     ELSE <<>>
               m2 == AppendIf(m1, Abs(cur[2] - mean[2]) > 20,
                              "Adjust elbow position - keep forearms flat")
           IN  IF Abs(cur[3] - mean[3]) > 15
               THEN IF cur[3] < mean[3] - 15
                    THEN Append(m2, "Engage core - don't let hips drop")
                    ELSE Append(m2, "Keep body straight - hips too high")
               ELSE m2
      [] ex = "squat" ->
           LET m1 == AppendIf(<<>>, cur[1] + cur[2] > 2 * 100,
                              "Go deeper - squat below parallel")
               m2 == AppendIf(m1, Abs(cur[1] - cur[2]) > 15,
                              "Uneven knees - maintain symmetry")
               m3 == AppendIf(m2, cur[3] + cur[4] > 2 * (mean[3] + 20),
                              "Push hips back more - proper hip hinge")
           IN  IF cur[5] < mean[5] - 15
               THEN Append(m3, "Keep chest up - too much forward lean")
               ELSE AppendIf(m3, cur[5] > mean[5] + 15,
                             "Lean forward slightly - engage posterior chain")
      [] ex = "tricep_dips" ->
           LET m1 == AppendIf(<<>>, cur[1] + cur[2] > 2 * 110,
                              "Go deeper - lower until elbows at 90 degrees")
               m2 == AppendIf(m1, Abs(cur[1] - cur[2]) > 15,
                              "Uneven elbows - maintain symmetry")
               m3 == AppendIf(m2, cur[3] + cur[4] < 2 * (mean[3] - 15),
                              "Keep chest up - don't lean too far forward")
           IN  AppendIf(m3, cur[1] + cur[2] < 2 * (mean[1] - 20),
                        "Keep elbows tucked - don't flare out")
      [] OTHER -> <<>>

detect_mistakes(cur, mean, ex) ==
    CASE ex = "pushup" ->
           LET m1 == AppendIf(<<>>, cur[1] + cur[2] > 2 * (mean[1] + 10),
                              "Go lower - bend elbows more")
               m2 == AppendIf(m1, Abs(cur[3] - mean[3]) > 15,
                              "Keep back straight")
           IN  AppendIf(m2, cur[4] + cur[5] > 2 * (mean[4] + 10),
                        "Knees bent - keep legs straight")
      [] ex = "pullup" ->
           LET m1 == AppendIf(<<>>, cur[1] > mean[1] + 15,
                              "Pull higher - bend the elbows more at top")
               m2 == AppendIf(m1, cur[2] > mean[2] + 15,
                              "Drive shoulders up - reach the bar higher")
           IN  AppendIf(m2, cur[2] < mean[2] - 20,
                        "Control the descent - don't drop too fast")
      [] ex = "plank" ->
           LET m1 == IF Abs(cur[1] - 180) > 15
                     THEN IF cur[1] < 165
                          THEN <<"Hips too high - lower your hips">>
                          ELSE <<"Hips sagging - raise your hips">>
                     ELSE <<>>
               m2 == AppendIf(m1, Abs(cur[2] - mean[2]) > 20,
                              "Adjust elbow position - keep forearms flat")
           IN  IF Abs(cur[3] - mean[3]) > 15
               THEN IF cur[3] < mean[3] - 15
                    THEN Append(m2, "Engage core - don't let hips drop")
                    ELSE Append(m2, "Keep body straight - hips too high")
               ELSE m2
      [] ex = "squat" ->
           LET m1 == AppendIf(<<>>, cur[1] + cur[2] > 2 * 100,
                              "Go deeper - squat below parallel")
               m2 == AppendIf(m1, Abs(cur[1] - cur[2]) > 15,
                              "Uneven knees - maintain symmetry")
               m3 == AppendIf(m2, cur[3] + cur[4] > 2 * (mean[3] + 20),
                              "Push hips back more - proper hip hinge")
           IN  IF cur[5] < mean[5] - 15
               THEN Append(m3, "Keep chest up - too much forward lean")
               ELSE AppendIf(m3, cur[5] > mean[5] + 15,
                             "Lean forward slightly - engage posterior chain")
      [] ex = "tricep_dips" ->
           LET m1 == AppendIf(<<>>, cur[1] + cur[2] > 2 * 110,
                              "Go deeper - lower until elbows at 90 degrees")
               m2 == AppendIf(m1, Abs(cur[1] - cur[2]) > 15,
                              "Uneven elbows - maintain symmetry")
               m3 == AppendIf(m2, cur[3] + cur[4] < 2 * (mean[3] - 15),
                              "Keep chest up - don't lean too far forward")
           IN  AppendIf(m3, cur[1] + cur[2] < 2 * (mean[1] - 20),
                        "Keep elbows tucked - don't flare out")
      [] OTHER -> <<>>

(***************************************************************************)
(* Helpers of analyze_video.                                               *)
(***************************************************************************)
Range(s) == {s[i] : i \in 1..Len(s)}

RECURSIVE Sum(_)
Sum(s) == IF s = <<>> THEN 0 ELSE s[1] + Sum(Tail(s))

\* s[-n:]
LastN(s, n) == IF Len(s) <= n THEN s ELSE SubSeq(s, Len(s) - n + 1, Len(s))

\* sliding_window with the zero rows stacked behind the real rows
sliding_window_pad_back(hist) ==
    LET tail == LastN(hist, seq_len)
    IN  IF Len(tail) < seq_len
        THEN tail \o [i \in 1..(seq_len - Len(tail)) |-> zeros(Len(tail[1]))]
        ELSE tail

\* lines 1019-1022: the last seq_len rows of the history, zero rows stacked in
\* front when there are fewer; the zero rows take the width of the first row.
sliding_window(hist) ==
    LET tail == LastN(hist, seq_len)
    IN  IF Len(tail) < seq_len
        THEN [i \in 1..(seq_len - Len(tail)) |-> zeros(Len(tail[1]))] \o tail
        ELSE tail

\* frame_accuracy without the lower clamp
frame_accuracy_no_floor(prob, m) == Min(1000, prob - 100 * m) \div 10

\* frame_accuracy with round() in place of int()
frame_accuracy_rounded(prob, m) == (Min(1000, Max(0, prob - 100 * m)) + 5) \div 10

\* line 1034: int(min(100, max(0, prob_correct * 100 - len(mistakes) * 10)));
\* prob is per-mille, the value inside int() is in tenths, int() truncates.
frame_accuracy(prob, m) == Min(1000, Max(0, prob - 100 * m)) \div 10

\* avg_accuracy with round() in place of int()
avg_accuracy_rounded(accs) ==
    IF accs = <<>> THEN 0 ELSE (2 * Sum(accs) + Len(accs)) \div (2 * Len(accs))

\* line 1056: int(np.mean(frame_accuracies)) if frame_accuracies else 0
avg_accuracy(accs) == IF accs = <<>> THEN 0 ELSE Sum(accs) \div Len(accs)

\* unique_mistakes without the set(): the list as accumulated
unique_mistakes_keep_all(all) == {all}

\* line 1057: list(set(all_mistakes)); the order of a set's elements is not
\* fixed by the language, so every order is a possible value: Orders(S) is
\* the set of the sequences that list each element of S once.
RECURSIVE Orders(_)
Orders(S) ==
    IF S = {} THEN {<<>>}
    ELSE UNION {{<<x>> \o q : q \in Orders(S \ {x})} : x \in S}

unique_mistakes(all) == Orders(Range(all))

mock_result(ex, acc, msg) ==
    [exercise_type |-> ex, exercise_name |-> EXERCISES[ex].name, accuracy |-> acc,
     mistakes |-> <<msg>>, output_video |-> None, total_frames |-> 0,
     mock_result |-> TRUE]

Returns(r) == [kind |-> "return", result |-> r]

Raises(e) == [kind |-> "raise", error |-> e]

NoPoseMessage == "No pose landmarks detected in the video. Please ensure the person is clearly visible and well-lit."

(***************************************************************************)
(* Inputs.                                                                 *)
(***************************************************************************)
\* what cap.read() and pose.process() deliver for one frame
Frames ==
    {[det |-> "none", kp |-> None], [det |-> "error", kp |-> None]}
    \cup {[det |-> "landmarks", kp |-> p] : p \in {PoseStanding, PoseBent}}

\* softmax output of the classifier, per-mille
Probs == {0, 856, 1000}

\* angle_stats["mean"] of a well-formed statistics file
MeanValues == {90, 170}

MeanAngles(ex) == {[i \in 1..EXERCISES[ex].input_size |-> v] : v \in MeanValues}

(***************************************************************************)
(* State after the caller has picked the arguments, before analyze_video   *)
(* runs.                                                                   *)
(***************************************************************************)
InitRun ==
    /\ pc = "start"
    /\ mean_angles = None
    /\ cap = "none"
    /\ out = "none"
    /\ codec = None
    /\ output_filename = None
    /\ frame_count = 0
    /\ all_keypoints = <<>>
    /\ keypoints_seq = <<>>
    /\ frame_accuracies = <<>>
    /\ all_mistakes = <<>>
    /\ written = 0
    /\ detected = 0
    /\ outcome = [kind |-> "running"]
    /\ session = EmptySession
    /\ history = <<>>
    /\ artifacts = [checked |-> FALSE, model_exists |-> FALSE,
                    stats_exists |-> FALSE, loaded |-> FALSE]
    /\ prob_correct = 0
    /\ mistakes = <<>>
    /\ now = 0
    /\ det = "none"
    /\ response = None

\* empty tables; the user's level row as get_or_create_user_level creates it
InitDb ==
    /\ user_sessions = <<>>
    /\ user_level = [level |-> 1, experience_points |-> 0,
                     total_workouts |-> 0, perfect_workouts |-> 0,
                     streak_days |-> 0, last_workout_date |-> "None"]
    /\ user_challenges = {}
    /\ user_achievements = {}

\* no direct call, no second analysis
InitOther ==
    /\ call = [fn |-> "none"]
    /\ reply = [kind |-> "none"]
    /\ workers = <<>>
    /\ pose_user = 0
    /\ InitDb

Init ==
    /\ AI_AVAILABLE \in BOOLEAN
    /\ exercise_type \in ExerciseTypes
    /\ InitRun
    /\ InitOther

loopVars == <<frame_count, all_keypoints, keypoints_seq, frame_accuracies,
              all_mistakes, written, detected, prob_correct, mistakes, det>>

\* the database tables behind the sessions and the gamification
dbVars == <<user_sessions, user_level, user_challenges, user_achievements>>

\* state of the specifications that do not run analyze_video through a request
otherVars == <<call, reply, workers, pose_user, dbVars>>

ioVars == <<cap, out, codec, output_filename>>

\* process_video, lines 796-813: what the except branch answers; the text of
\* the exception e is carried in the message and under the key error
FallbackMessage(e) ==
    CASE e = "KeyError"          -> "Analysis encountered an error: KeyError"
      [] e = "UnboundLocalError" -> "Analysis encountered an error: UnboundLocalError"
      [] e = "RuntimeError"      -> "Analysis encountered an error: RuntimeError"
      [] e = NoPoseMessage       ->
           "Analysis encountered an error: No pose landmarks detected in the video. Please ensure the person is clearly visible and well-lit."

\* fallback_result in the shape of the other routes' errors: the error only
fallback_result_error_only(ex, e) == [error |-> e]

fallback_result(ex, e) ==
    [exercise_type |-> ex,
     exercise_name |-> IF ex \in KnownKinds THEN EXERCISES[ex].name ELSE "Exercise",
     accuracy |-> 75,
     mistakes |-> <<FallbackMessage(e)>>,
     output_video |-> None,
     total_frames |-> 0,
     mock_result |-> TRUE,
     error |-> e]

\* process_video_response without the except branch building a result: the
\* exception text is all that is answered
process_video_response_no_fallback(o) ==
    IF o.kind = "return" THEN o.result ELSE [error |-> o.error]

\* process_video, lines 786-813: the result of analyze_video, or the fallback
\* result when analyze_video raised
process_video_response(o) ==
    IF o.kind = "return" THEN o.result ELSE fallback_result(exercise_type, o.error)

\* analyze_video ends with o and process_video, its caller, stores and
\* answers the response (lines 791-793, 812-813)
Finish(o) ==
    /\ outcome' = o
    /\ response' = process_video_response(o)
    /\ session' = [analysis_result |-> process_video_response(o)]
    /\ pc' = "done"

(***************************************************************************)
(* analyze_video, lines 860-872: the AI_AVAILABLE check.                   *)
(***************************************************************************)
CheckAI ==
    /\ pc = "start"
    /\ IF AI_AVAILABLE
       THEN /\ pc' = "load"
            /\ UNCHANGED <<outcome, session, response>>
       ELSE IF exercise_type \in KnownKinds
            THEN Finish(Returns(
                   [exercise_type |-> exercise_type,
                    exercise_name |-> EXERCISES[exercise_type].name,
                    accuracy |-> 85,
                    mistakes |-> <<"AI analysis not available - running in basic mode">>,
                    output_video |-> None, total_frames |-> 0, mock_result |-> TRUE,
                    message |-> "AI features are not available in this deployment"]))
            ELSE Finish(Raises("KeyError"))
    /\ UNCHANGED <<AI_AVAILABLE, exercise_type, mean_angles, ioVars, loopVars,
                   history, artifacts, now, otherVars>>

(***************************************************************************)
(* Lines 874-919: model and statistics.                                    *)
(***************************************************************************)
\* LoadUnknownKind with a handler that looks the name up with a default and
\* returns its mock result
LoadUnknownKindMock ==
    /\ pc = "load"
    /\ exercise_type \notin KnownKinds
    /\ Finish(Returns([exercise_type |-> exercise_type, exercise_name |-> "Exercise",
                       accuracy |-> 80, mistakes |-> <<"Model loading failed: <error>">>,
                       output_video |-> None, total_frames |-> 0,
                       mock_result |-> TRUE]))
    /\ UNCHANGED <<AI_AVAILABLE, exercise_type, mean_angles, ioVars, loopVars,
                   history, artifacts, now, otherVars>>

\* line 875 raises KeyError, the handler at 909 reads exercise_config unbound
LoadUnknownKind ==
    /\ pc = "load"
    /\ exercise_type \notin KnownKinds
    /\ Finish(Raises("UnboundLocalError"))
    /\ UNCHANGED <<AI_AVAILABLE, exercise_type, mean_angles, ioVars, loopVars,
                   history, artifacts, now, otherVars>>

\* lines 884-895
LoadMissing ==
    /\ pc = "load"
    /\ exercise_type \in KnownKinds
    /\ \E me, se \in BOOLEAN :
         /\ ~(me /\ se)
         /\ artifacts' = [checked |-> TRUE, model_exists |-> me,
                          stats_exists |-> se, loaded |-> FALSE]
    /\ Finish(Returns(mock_result(exercise_type, 85,
                                  "Model files not available - using mock analysis")))
    /\ UNCHANGED <<AI_AVAILABLE, exercise_type, mean_angles, ioVars, loopVars,
                   history, now, otherVars>>

\* LoadFailed without the handler of line 909: the load error propagates
LoadFailedPropagates ==
    /\ pc = "load"
    /\ exercise_type \in KnownKinds
    /\ artifacts' = [checked |-> TRUE, model_exists |-> TRUE,
                     stats_exists |-> TRUE, loaded |-> FALSE]
    /\ Finish(Raises("RuntimeError"))
    /\ UNCHANGED <<AI_AVAILABLE, exercise_type, mean_angles, ioVars, loopVars,
                   history, now, otherVars>>

\* lines 897-906 raise, lines 909-919
LoadFailed ==
    /\ pc = "load"
    /\ exercise_type \in KnownKinds
    /\ artifacts' = [checked |-> TRUE, model_exists |-> TRUE,
                     stats_exists |-> TRUE, loaded |-> FALSE]
    /\ Finish(Returns(mock_result(exercise_type, 80, "Model loading failed: <error>")))
    /\ UNCHANGED <<AI_AVAILABLE, exercise_type, mean_angles, ioVars, loopVars,
                   history, now, otherVars>>

\* LoadOk going on to the video although the weights were not loaded
LoadOk_unloaded ==
    /\ pc = "load"
    /\ exercise_type \in KnownKinds
    /\ artifacts' = [checked |-> TRUE, model_exists |-> TRUE,
                     stats_exists |-> TRUE, loaded |-> FALSE]
    /\ mean_angles' \in MeanAngles(exercise_type)
    /\ pc' = "open"
    /\ UNCHANGED <<AI_AVAILABLE, exercise_type, ioVars, loopVars, outcome,
                   session, response, history, now, otherVars>>

\* lines 897-908
LoadOk ==
    /\ pc = "load"
    /\ exercise_type \in KnownKinds
    /\ artifacts' = [checked |-> TRUE, model_exists |-> TRUE,
                     stats_exists |-> TRUE, loaded |-> TRUE]
    /\ mean_angles' \in MeanAngles(exercise_type)
    /\ pc' = "open"
    /\ UNCHANGED <<AI_AVAILABLE, exercise_type, ioVars, loopVars, outcome,
                   session, response, history, now, otherVars>>

(***************************************************************************)
(* Lines 922-967: capture and writer.                                      *)
(***************************************************************************)
\* OpenCaptureFails without the handler of line 956: the open error propagates
OpenCaptureFailsPropagates ==
    /\ pc = "open"
    /\ cap' = "failed"
    /\ Finish(Raises("RuntimeError"))
    /\ UNCHANGED <<AI_AVAILABLE, exercise_type, mean_angles, out, codec,
                   output_filename, loopVars, history, artifacts, now, otherVars>>

\* lines 923-925, 956-967
OpenCaptureFails ==
    /\ pc = "open"
    /\ cap' = "failed"
    /\ Finish(Returns(mock_result(exercise_type, 75,
         "Video processing error: Could not open video file. Please check if the file is corrupted or in an unsupported format.")))
    /\ UNCHANGED <<AI_AVAILABLE, exercise_type, mean_angles, out, codec,
                   output_filename, loopVars, history, artifacts, now, otherVars>>

\* lines 934-938, 956-967
InvalidDimensions ==
    /\ pc = "open"
    /\ cap' = "open"
    /\ Finish(Returns(mock_result(exercise_type, 75,
         "Video processing error: Invalid video dimensions. Please check if the video file is valid.")))
    /\ UNCHANGED <<AI_AVAILABLE, exercise_type, mean_angles, out, codec,
                   output_filename, loopVars, history, artifacts, now, otherVars>>

\* lines 923-954: primary codec, then the H264 fallback when it did not open
OpenVideo ==
    /\ pc = "open"
    /\ cap' = "open"
    /\ output_filename' = <<"feedback", exercise_type, now, "mp4">>
    /\ \E primary, fallback \in BOOLEAN :
         IF primary
         THEN /\ fallback
              /\ codec' = "mp4v"
              /\ out' = "open"
         ELSE /\ codec' = "H264"
              /\ out' = IF fallback THEN "open" ELSE "unopened"
    /\ pc' = "loop"
    /\ UNCHANGED <<AI_AVAILABLE, exercise_type, mean_angles, loopVars, outcome,
                   session, response, history, artifacts, now, otherVars>>

(***************************************************************************)
(* Lines 977-1048: the per-frame loop.                                     *)
(***************************************************************************)
\* angle_row with the push-up width for the substituted zero row, as in
\* dataset_angles.extract_angles
angle_row_fixed_zeros(frame, ex) ==
    LET frame_angles == IF frame.det = "landmarks"
                        THEN calculate_exercise_angles(frame.kp, ex)
                        ELSE None
    IN  IF frame_angles = None THEN zeros(5) ELSE frame_angles

\* lines 997-1016: the row appended to the history for one frame
angle_row(frame, ex) ==
    LET frame_angles == IF frame.det = "landmarks"
                        THEN calculate_exercise_angles(frame.kp, ex)
                        ELSE None
    IN  IF frame_angles = None THEN zeros(EXERCISES[ex].input_size) ELSE frame_angles

\* angle_row of every input frame, worked out once
angle_row_table ==
    [ex \in KnownKinds |-> [frame \in Frames |-> angle_row(frame, ex)]]

\* angle_row(frame, ex), read from the table where the table has it
angle_row_of(frame, ex) ==
    IF ex \in KnownKinds /\ frame \in Frames
    THEN angle_row_table[ex][frame]
    ELSE angle_row(frame, ex)

\* Iterate without the try of lines 986-995: an exception of the detector
\* leaves the loop before anything is appended
Iterate_detection_propagates(frame, prob) ==
    LET hist == Append(all_keypoints, angle_row_of(frame, exercise_type))
        win  == sliding_window(hist)
        ms   == detect_mistakes(win[Len(win)], mean_angles, exercise_type)
        acc  == frame_accuracy(prob, Len(ms))
    IN  /\ pc = "loop"
        /\ frame_count' = frame_count + 1
        /\ det' = frame.det
        /\ IF frame.det = "error"
           THEN /\ Finish(Raises("RuntimeError"))
                /\ UNCHANGED <<detected, all_keypoints, keypoints_seq, prob_correct,
                               mistakes, all_mistakes, frame_accuracies, written>>
           ELSE /\ detected' = IF frame.det = "landmarks" THEN detected + 1 ELSE detected
                /\ all_keypoints' = hist
                /\ keypoints_seq' = win
                /\ prob_correct' = prob
                /\ mistakes' = ms
                /\ all_mistakes' = all_mistakes \o ms
                /\ frame_accuracies' = Append(frame_accuracies, acc)
                /\ written' = IF out = "open" THEN written + 1 ELSE written
                /\ UNCHANGED <<pc, outcome, session, response>>
        /\ UNCHANGED <<AI_AVAILABLE, exercise_type, mean_angles, ioVars,
                       history, artifacts, now, otherVars>>

\* one iteration on a frame that was read, the classifier answering prob
Iterate(frame, prob) ==
    LET hist == Append(all_keypoints, angle_row_of(frame, exercise_type))
        win  == sliding_window(hist)
        ms   == detect_mistakes(win[Len(win)], mean_angles, exercise_type)
        acc  == frame_accuracy(prob, Len(ms))
    IN  /\ pc = "loop"
        /\ frame_count' = frame_count + 1
        /\ det' = frame.det
        /\ detected' = IF frame.det = "landmarks" THEN detected + 1 ELSE detected
        /\ all_keypoints' = hist
        /\ keypoints_seq' = win
        /\ prob_correct' = prob
        /\ mistakes' = ms
        /\ all_mistakes' = all_mistakes \o ms
        /\ frame_accuracies' = Append(frame_accuracies, acc)
        /\ written' = IF out = "open" THEN written + 1 ELSE written
        /\ UNCHANGED <<AI_AVAILABLE, exercise_type, pc, mean_angles, ioVars, outcome,
                       session, response, history, artifacts, now, otherVars>>

\* one iteration in which the classifier call of line 1026 raises: nothing
\* catches it, lines 1050-1051 are not reached
IterateRaises(frame) ==
    LET hist == Append(all_keypoints, angle_row_of(frame, exercise_type))
    IN  /\ pc = "loop"
        /\ frame_count' = frame_count + 1
        /\ det' = frame.det
        /\ detected' = IF frame.det = "landmarks" THEN detected + 1 ELSE detected
        /\ all_keypoints' = hist
        /\ keypoints_seq' = sliding_window(hist)
        /\ Finish(Raises("RuntimeError"))
        /\ UNCHANGED <<AI_AVAILABLE, exercise_type, mean_angles, ioVars, prob_correct,
                       mistakes, all_mistakes, frame_accuracies, written,
                       history, artifacts, now, otherVars>>

ReadFrame ==
    /\ frame_count < MaxFrames
    /\ \E frame \in Frames, prob \in Probs : Iterate(frame, prob)

InferenceFails ==
    /\ frame_count < MaxFrames
    /\ \E frame \in Frames : IterateRaises(frame)

\* EndOfVideo with continue for break: the failed read is tried again
EndOfVideo_retries ==
    /\ pc = "loop"
    /\ pc' = "loop"
    /\ UNCHANGED <<AI_AVAILABLE, exercise_type, mean_angles, ioVars, loopVars, outcome,
                   session, response, history, artifacts, now, otherVars>>

\* lines 978-980: cap.read() reports no further frame
EndOfVideo ==
    /\ pc = "loop"
    /\ pc' = "release"
    /\ UNCHANGED <<AI_AVAILABLE, exercise_type, mean_angles, ioVars, loopVars, outcome,
                   session, response, history, artifacts, now, otherVars>>

\* lines 1050-1051
Release ==
    /\ pc = "release"
    /\ cap' = "released"
    /\ out' = "released"
    /\ pc' = "final"
    /\ UNCHANGED <<AI_AVAILABLE, exercise_type, mean_angles, codec, output_filename,
                   loopVars, outcome, session, response, history, artifacts, now, otherVars>>

(***************************************************************************)
(* Lines 1055-1104: the result, the history row, the session.              *)
(***************************************************************************)
\* lines 1075-1100: the user is not authenticated; the row is committed and
\* the rewards are added; the commit raises; the rewards call raises after
\* the commit.  The handler of line 1099 swallows both exceptions.
SaveOutcomes == {"anonymous", "saved", "commit_failed", "rewards_failed"}

\* lines 1063-1070
analysis_result(um) ==
    [exercise_type |-> exercise_type,
     exercise_name |-> EXERCISES[exercise_type].name,
     accuracy |-> avg_accuracy(frame_accuracies),
     mistakes |-> um,
     output_video |-> output_filename,
     total_frames |-> Len(frame_accuracies)]

Finalize ==
    /\ pc = "final"
    /\ IF Len(frame_accuracies) = 0
       THEN /\ Finish(Raises(NoPoseMessage))
            /\ UNCHANGED history
       ELSE \E um \in unique_mistakes(all_mistakes), save \in SaveOutcomes :
              LET result == analysis_result(um)
                  row    == [exercise_type |-> exercise_type,
                             accuracy |-> result.accuracy,
                             mistakes |-> um,
                             video_filename |-> output_filename]
                  final  == IF save = "saved"
                            THEN result @@ [gamification |-> "rewards"]
                            ELSE result
              IN  /\ history' = IF save \in {"saved", "rewards_failed"}
                                THEN Append(history, row)
                                ELSE history
                  \* line 1102 stores final in the session, as the caller does
                  /\ Finish(Returns(final))
    /\ UNCHANGED <<AI_AVAILABLE, exercise_type, mean_angles, ioVars, loopVars,
                   artifacts, now, otherVars>>

Next ==
    \/ CheckAI
    \/ LoadUnknownKind
    \/ LoadMissing
    \/ LoadFailed
    \/ LoadOk
    \/ OpenCaptureFails
    \/ InvalidDimensions
    \/ OpenVideo
    \/ ReadFrame
    \/ InferenceFails
    \/ EndOfVideo
    \/ Release
    \/ Finalize

Spec == Init /\ [][Next]_vars

(***************************************************************************)
(* A second specification for long videos: the frames and the classifier   *)
(* outputs are fixed by the frame number, so that the history can outgrow  *)
(* the window of seq_len rows.                                             *)
(***************************************************************************)
LongFrame(n) ==
    IF n % 3 = 0 THEN [det |-> "none", kp |-> None]
    ELSE IF n % 3 = 1 THEN [det |-> "landmarks", kp |-> PoseStanding]
    ELSE [det |-> "landmarks", kp |-> PoseCollapsed]

LongProb(n) == IF n % 4 = 0 THEN 1000 ELSE IF n % 4 = 2 THEN 0 ELSE 856

ReadLongFrame ==
    /\ frame_count < MaxLongFrames
    /\ Iterate(LongFrame(frame_count + 1), LongProb(frame_count + 1))

LongInferenceFails ==
    /\ frame_count < MaxLongFrames
    /\ IterateRaises(LongFrame(frame_count + 1))

NextLong ==
    \/ CheckAI
    \/ LoadUnknownKind
    \/ LoadMissing
    \/ LoadFailed
    \/ LoadOk
    \/ OpenCaptureFails
    \/ InvalidDimensions
    \/ OpenVideo
    \/ ReadLongFrame
    \/ LongInferenceFails
    \/ EndOfVideo
    \/ Release
    \/ Finalize

SpecLong == Init /\ [][NextLong]_vars

(***************************************************************************)
(* The same frames on a short video, for termination.  analyze_video runs  *)
(* in the one thread of its request, which is never held back for ever.    *)
(***************************************************************************)
MaxShortFrames == 4

ReadShortFrame ==
    /\ frame_count < MaxShortFrames
    /\ Iterate(LongFrame(frame_count + 1), LongProb(frame_count + 1))

ShortInferenceFails ==
    /\ frame_count < MaxShortFrames
    /\ IterateRaises(LongFrame(frame_count + 1))

NextShort ==
    \/ CheckAI
    \/ LoadUnknownKind
    \/ LoadMissing
    \/ LoadFailed
    \/ LoadOk
    \/ OpenCaptureFails
    \/ InvalidDimensions
    \/ OpenVideo
    \/ ReadShortFrame
    \/ ShortInferenceFails
    \/ EndOfVideo
    \/ Release
    \/ Finalize

\* the steps other than the handling of one more frame: outside the loop the
\* thread's next step, in the loop the read that fails, which a video of
\* finitely many frames comes to
Advance ==
    \/ CheckAI
    \/ LoadUnknownKind
    \/ LoadMissing
    \/ LoadFailed
    \/ LoadOk
    \/ OpenCaptureFails
    \/ InvalidDimensions
    \/ OpenVideo
    \/ EndOfVideo
    \/ Release
    \/ Finalize

SpecShortFair == Init /\ [][NextShort]_vars /\ WF_vars(Advance)

(***************************************************************************)
(* A third specification: calculate_exercise_angles and detect_mistakes    *)
(* called directly, on arguments drawn from bounded sets.                  *)
(***************************************************************************)
\* angles in degrees, on and around the thresholds of detect_mistakes
AngleValues == {0, 74, 90, 100, 106, 110, 180}

\* back angles of a plank, on and around 165
PlankBackValues == {140, 164, 165, 166}

CurrentAngles(ex) ==
    IF ex = "plank"
    THEN [1..EXERCISES[ex].input_size -> AngleValues \cup PlankBackValues]
    ELSE [1..EXERCISES[ex].input_size -> AngleValues]

\* the constant mean vectors of MeanAngles and one whose components differ
DirectMeans(ex) ==
    MeanAngles(ex) \cup {[i \in 1..EXERCISES[ex].input_size |-> 80 + 5 * i]}

\* pixel points of the landmarks
Points == {<<x, y>> : x \in 0..3, y \in 0..3}

\* the state before a direct call with the arguments of c
InitCall(c) ==
    /\ AI_AVAILABLE = TRUE
    /\ call = c
    /\ exercise_type = IF "ex" \in DOMAIN c THEN c.ex ELSE "pushup"
    /\ InitRun
    /\ reply = [kind |-> "none"]
    /\ workers = <<>>
    /\ pose_user = 0
    /\ InitDb

InitFn ==
    \/ \E ex \in KnownKinds : \E c \in CurrentAngles(ex) : \E m \in DirectMeans(ex) :
          InitCall([fn |-> "detect_mistakes", ex |-> ex, cur |-> c, mean |-> m])
    \/ \E ex \in ExerciseTypes : \E kp \in Poses :
          InitCall([fn |-> "calculate_exercise_angles", ex |-> ex, kp |-> kp])
    \/ \E a \in Points, b \in Points, c \in Points :
          InitCall([fn |-> "calculate_angle", a |-> a, b |-> b, c |-> c])

runVars == <<AI_AVAILABLE, exercise_type, pc, mean_angles, ioVars, loopVars,
             outcome, session, response, history, artifacts, now>>

CallDetectMistakes ==
    /\ call.fn = "detect_mistakes"
    /\ reply.kind = "none"
    /\ reply' = [kind |-> "return",
                 value |-> detect_mistakes(call.cur, call.mean, call.ex)]
    /\ UNCHANGED <<runVars, call, workers, pose_user, dbVars>>

\* CallCalculateExerciseAngles with a final else that raises
CallCalculateExerciseAngles_raising ==
    /\ call.fn = "calculate_exercise_angles"
    /\ reply.kind = "none"
    /\ reply' = IF call.ex \in KnownKinds
                THEN [kind |-> "return",
                      value |-> calculate_exercise_angles(call.kp, call.ex)]
                ELSE [kind |-> "raise", error |-> "UnsupportedExerciseKind"]
    /\ UNCHANGED <<runVars, call, workers, pose_user, dbVars>>

\* the function has no raise: every call returns, None included
CallCalculateExerciseAngles ==
    /\ call.fn = "calculate_exercise_angles"
    /\ reply.kind = "none"
    /\ reply' = [kind |-> "return",
                 value |-> calculate_exercise_angles(call.kp, call.ex)]
    /\ UNCHANGED <<runVars, call, workers, pose_user, dbVars>>

\* numpy raises on none of the operations of the function
CallCalculateAngle ==
    /\ call.fn = "calculate_angle"
    /\ reply.kind = "none"
    /\ reply' = [kind |-> "return",
                 value |-> calculate_angle(call.a, call.b, call.c)]
    /\ UNCHANGED <<runVars, call, workers, pose_user, dbVars>>

NextFn ==
    \/ CallDetectMistakes
    \/ CallCalculateExerciseAngles
    \/ CallCalculateAngle

SpecFn == InitFn /\ [][NextFn]_vars

(***************************************************************************)
(* A fourth specification: two requests analysed at the same time by the   *)
(* threads of one server process.  Each thread has its own locals (output  *)
(* name, rolling history, frame count); the clock and the module-level     *)
(* detector pose are the process's.                                        *)
(***************************************************************************)
MaxClock == 1

MaxWorkerFrames == 2

Workers == {1, 2}

WorkerKinds == {"pushup", "squat"}

WorkerFrames == {[det |-> "none", kp |-> None],
                 [det |-> "landmarks", kp |-> PoseStanding]}

\* the locals of a run at line 922; tracked is the run whose frame the
\* detector had seen last when this run last called it, 0 before any call
WorkerStart(ex) ==
    [exercise_type |-> ex, pc |-> "open", output_filename |-> None,
     all_keypoints |-> <<>>, frame_count |-> 0, tracked |-> 0]

InitTwo ==
    /\ AI_AVAILABLE = TRUE
    /\ workers \in [Workers -> {WorkerStart(ex) : ex \in WorkerKinds}]
    /\ exercise_type = workers[1].exercise_type
    /\ InitRun
    /\ call = [fn |-> "none"]
    /\ reply = [kind |-> "none"]
    /\ pose_user = 0
    /\ InitDb

\* time.time() advances between any two steps
Tick ==
    /\ now < MaxClock
    /\ now' = now + 1
    /\ UNCHANGED <<AI_AVAILABLE, exercise_type, pc, mean_angles, ioVars, loopVars,
                   outcome, session, response, history, artifacts, otherVars>>

\* lines 943-949: the output name has the exercise type and the second
WorkerOpen(w) ==
    /\ workers[w].pc = "open"
    /\ workers' = [workers EXCEPT
                     ![w].output_filename =
                         <<"feedback", workers[w].exercise_type, now, "mp4">>,
                     ![w].pc = "loop"]
    /\ UNCHANGED <<runVars, call, reply, pose_user, dbVars>>

\* lines 977-1016: pose.process on the module-level detector, which keeps
\* what it tracked in the frame before (static_image_mode=False)
WorkerFrame(w) ==
    /\ workers[w].pc = "loop"
    /\ workers[w].frame_count < MaxWorkerFrames
    /\ \E frame \in WorkerFrames :
         workers' = [workers EXCEPT
                       ![w].frame_count = @ + 1,
                       ![w].tracked = pose_user,
                       ![w].all_keypoints =
                           Append(@, angle_row_of(frame, workers[w].exercise_type))]
    /\ pose_user' = w
    /\ UNCHANGED <<runVars, call, reply, dbVars>>

\* lines 1050-1051
WorkerDone(w) ==
    /\ workers[w].pc = "loop"
    /\ workers' = [workers EXCEPT ![w].pc = "done"]
    /\ UNCHANGED <<runVars, call, reply, pose_user, dbVars>>

NextTwo ==
    \/ Tick
    \/ \E w \in Workers : WorkerOpen(w)
    \/ \E w \in Workers : WorkerFrame(w)
    \/ \E w \in Workers : WorkerDone(w)

SpecTwo == InitTwo /\ [][NextTwo]_vars

(***************************************************************************)
(* Properties.                                                             *)
(***************************************************************************)
Returned == pc = "done" /\ outcome.kind = "return"

Raised == pc = "done" /\ outcome.kind = "raise"

\* a result of a run that went through the loop, not a mock result
NonDegraded == Returned /\ "mock_result" \notin DOMAIN outcome.result

LastAccuracy == frame_accuracies[Len(frame_accuracies)]

\* min(100, max(0, p*100 - 10*m)) of the last frame, in tenths
LastClamped == Min(1000, Max(0, prob_correct - 100 * Len(mistakes)))

\* C1: a run that read its video to the end (the capture was released after
\* the loop) without a single frame with landmarks ends by raising the
\* no-pose error, never by returning a result.
C1_NoDetectionFails ==
    (pc = "done" /\ cap = "released" /\ detected = 0)
        => (outcome.kind = "raise" /\ outcome.error = NoPoseMessage)

\* C2: total_frames of a non-degraded result is the number of frames on
\* which the detector returned landmarks.
C2_TotalFramesIsDetected ==
    NonDegraded => outcome.result.total_frames = detected

\* C3: when analyze_video has ended, neither the capture nor the writer is
\* still open.
C3_ResourcesReleased ==
    pc = "done" => (cap # "open" /\ out # "open")

\* C4: a missing or unloadable weight or statistics file of a known kind ends
\* the run with a returned mock result (flag set, no frames, no output video,
\* placeholder accuracy, one non-empty message) and the capture untouched.
C4_ModelUnavailableDegrades ==
    (pc = "done" /\ artifacts.checked /\ ~artifacts.loaded)
        => /\ outcome.kind = "return"
           /\ outcome.result.mock_result = TRUE
           /\ outcome.result.total_frames = 0
           /\ outcome.result.output_video = None
           /\ outcome.result.accuracy \in {80, 85}
           /\ Len(outcome.result.mistakes) = 1
           /\ outcome.result.mistakes[1] # ""
           /\ outcome.result.exercise_type \in KnownKinds
           /\ cap = "none"
           /\ out = "none"

C4_Witness ==
    /\ pc = "done"
    /\ artifacts.checked
    /\ ~artifacts.model_exists
    /\ artifacts.stats_exists
    /\ outcome.kind = "return"
    /\ outcome.result.mock_result = TRUE

\* C5: every per-frame accuracy is an integer from 0 to 100.
C5_AccuracyInRange ==
    \A i \in 1..Len(frame_accuracies) : frame_accuracies[i] \in 0..100

\* both clamps have acted in one run: p = 0 with mistakes gave 0, p = 1 gave 100
C5_Witness ==
    /\ Len(frame_accuracies) = 2
    /\ prob_correct = 0
    /\ Len(mistakes) >= 2
    /\ frame_accuracies[2] = 0
    /\ frame_accuracies[1] = 100

\* C6 as stated: the accuracy of the last frame is the nearest integer to
\* the clamped value p*100 - 10*m (at most half a point away).
C6_AccuracyIsRounded ==
    Len(frame_accuracies) > 0 => Abs(10 * LastAccuracy - LastClamped) <= 5

\* C6 amended: the accuracy of the last frame is the clamped value
\* p*100 - 10*m with its fraction dropped.
C6_AccuracyIsTruncated ==
    Len(frame_accuracies) > 0
        => (10 * LastAccuracy <= LastClamped /\ LastClamped < 10 * LastAccuracy + 10)

\* p*100 - 10*m = 85.6 gave 85
C6_Witness ==
    /\ Len(frame_accuracies) > 0
    /\ prob_correct = 856
    /\ mistakes = <<>>
    /\ LastAccuracy = 85

\* C7 as stated: the accuracy of a non-degraded result is the nearest integer
\* to the mean of the per-frame accuracies.
C7_FinalIsRoundedMean ==
    NonDegraded
        => Abs(2 * Len(frame_accuracies) * outcome.result.accuracy
               - 2 * Sum(frame_accuracies)) <= Len(frame_accuracies)

\* C7 amended: the accuracy of a non-degraded result is the mean of the
\* per-frame accuracies with its fraction dropped.
C7_FinalIsTruncatedMean ==
    NonDegraded
        => LET n == Len(frame_accuracies)
               a == outcome.result.accuracy
           IN  n * a <= Sum(frame_accuracies) /\ Sum(frame_accuracies) < n * a + n

\* a mean whose fraction is above one half
C7_Witness ==
    /\ NonDegraded
    /\ 2 * (Sum(frame_accuracies) % Len(frame_accuracies)) > Len(frame_accuracies)

\* C8: the mistakes of a non-degraded result list no string twice and hold
\* exactly the strings that some frame reported.
C8_MistakesAreTheUnion ==
    NonDegraded
        => LET m == outcome.result.mistakes
           IN  /\ \A i, j \in 1..Len(m) : m[i] = m[j] => i = j
               /\ Range(m) = Range(all_mistakes)

\* a string reported on more than one frame, listed once
C8_Witness ==
    /\ NonDegraded
    /\ frame_count = 2
    /\ Len(outcome.result.mistakes) >= 2
    /\ Len(all_mistakes) > Len(outcome.result.mistakes)

\* C9: after n >= 1 frames the window has seq_len rows, the last
\* k = min(n, seq_len) being the k newest rows of the history in order and
\* the rows before them zero rows of the exercise's input_size.
C9_WindowShape ==
    frame_count >= 1
        => LET n == Len(all_keypoints)
               k == Min(n, seq_len)
           IN  /\ n = frame_count
               /\ Len(keypoints_seq) = seq_len
               /\ \A i \in 1..k : keypoints_seq[seq_len - k + i] = all_keypoints[n - k + i]
               /\ \A i \in 1..(seq_len - k) :
                     keypoints_seq[i] = zeros(EXERCISES[exercise_type].input_size)

\* the window has slid: the oldest row of the history is no longer in it
C9_Witness ==
    /\ frame_count = seq_len + 1
    /\ keypoints_seq[1] = all_keypoints[2]
    /\ keypoints_seq[1] # all_keypoints[1]

\* C10: every row of the history has the length input_size of the exercise.
C10_RowLength ==
    \A i \in 1..Len(all_keypoints) :
        Len(all_keypoints[i]) = EXERCISES[exercise_type].input_size

\* a computed row and a substituted zero row in one history
C10_Witness ==
    /\ exercise_type = "tricep_dips"
    /\ frame_count = 2
    /\ detected = 1
    /\ all_keypoints[2] = zeros(4)
    /\ all_keypoints[1] # zeros(4)

\* C11 as stated: when the input video cannot be opened, analyze_video ends
\* by raising an error other than the no-pose error.
C11_OpenFailureIsRaised ==
    (pc = "done" /\ cap = "failed")
        => (outcome.kind = "raise" /\ outcome.error # NoPoseMessage)

\* C11 amended: when the input video cannot be opened, analyze_video raises
\* nothing and returns the mock result of its video-error handler (accuracy
\* 75, no frames, no output video), which is what the caller answers.
C11_OpenFailureDegrades ==
    (pc = "done" /\ cap = "failed")
        => /\ outcome.kind = "return"
           /\ outcome.result.mock_result = TRUE
           /\ outcome.result.accuracy = 75
           /\ outcome.result.total_frames = 0
           /\ outcome.result.output_video = None
           /\ Len(outcome.result.mistakes) = 1
           /\ out = "none"
           /\ frame_count = 0
           /\ response = outcome.result

C11_Witness ==
    /\ pc = "done"
    /\ cap = "failed"
    /\ artifacts.loaded
    /\ outcome.kind = "return"

\* C12: when the detection of the frame handled last raised, the history
\* has a zero row for that frame; an accuracy was recorded for it and the
\* frame went to the open writer, unless the classifier raised on it, which
\* is then the only error the run ends with: the detection error never is.
C12_DetectionErrorTolerated ==
    (det = "error" /\ frame_count >= 1)
        => /\ Len(all_keypoints) = frame_count
           /\ all_keypoints[frame_count] = zeros(EXERCISES[exercise_type].input_size)
           /\ detected < frame_count
           /\ IF outcome.kind = "raise"
              THEN /\ outcome.error = "RuntimeError"
                   /\ Len(frame_accuracies) = frame_count - 1
              ELSE /\ Len(frame_accuracies) = frame_count
                   /\ out = "open" => written = frame_count
                   /\ pc \in {"loop", "release", "final", "done"}

\* a run whose only frame had a detection error went on to a result
C12_Witness ==
    /\ NonDegraded
    /\ det = "error"
    /\ frame_count = 1
    /\ all_keypoints = <<zeros(EXERCISES[exercise_type].input_size)>>
    /\ Len(frame_accuracies) = 1

\* C13: the loop is never entered with a writer that did not open, not even
\* after the fallback codec.
C13_NoLoopWithoutWriter ==
    out = "unopened" => (pc # "loop" /\ frame_count = 0)

\* C14: for an exercise type outside the known kinds no capture and no
\* writer is ever created, no frame is read, and the run ends by raising.
C14_UnknownKindRejected ==
    exercise_type \notin KnownKinds
        => /\ cap = "none"
           /\ out = "none"
           /\ output_filename = None
           /\ frame_count = 0
           /\ pc = "done" => outcome.kind = "raise"

C14_Witness ==
    /\ pc = "done"
    /\ exercise_type \notin KnownKinds
    /\ AI_AVAILABLE
    /\ outcome.kind = "raise"
    /\ cap = "none"

ResultKeys == {"exercise_type", "exercise_name", "accuracy", "mistakes",
               "output_video", "total_frames"}

\* C17: whatever process_video answers carries the six result fields, with an
\* accuracy from 0 to 100, strings as mistakes, no output video or the one
\* this run named, and a frame count that is not negative.
C17_ResponseShape ==
    pc = "done"
        => /\ ResultKeys \subseteq DOMAIN response
           /\ response.exercise_type = exercise_type
           /\ response.exercise_name \in STRING
           /\ response.accuracy \in 0..100
           /\ \A i \in 1..Len(response.mistakes) : response.mistakes[i] \in STRING
           /\ \/ response.output_video = None
              \/ /\ output_filename # None
                 /\ response.output_video = output_filename
           /\ response.total_frames \in 0..frame_count

\* the fallback of the caller after an exception in the loop
C17_Witness ==
    /\ pc = "done"
    /\ outcome = Raises("RuntimeError")
    /\ ResultKeys \subseteq DOMAIN response
    /\ response.accuracy = 75

\* C18: when analyze_video raised, process_video answers, and stores in the
\* session, a result flagged as mock with no frames, no output video and the
\* error text as its only mistake.
C18_FailureFallsBack ==
    (pc = "done" /\ outcome.kind = "raise")
        => /\ "mock_result" \in DOMAIN response
           /\ response.mock_result = TRUE
           /\ response.total_frames = 0
           /\ response.output_video = None
           /\ response.mistakes = <<FallbackMessage(outcome.error)>>
           /\ response.error = outcome.error
           /\ DOMAIN session = {"analysis_result"}
           /\ session.analysis_result = response

C18_Witness ==
    /\ pc = "done"
    /\ outcome = Raises(NoPoseMessage)
    /\ response.mock_result = TRUE
    /\ session.analysis_result = response

\* C15 as stated: calculate_exercise_angles called with an exercise type outside the
\* known kinds ends by raising, never by returning a value.
C15_UnknownKindRaises ==
    (call.fn = "calculate_exercise_angles" /\ call.ex \notin KnownKinds
        /\ reply.kind # "none")
        => reply.kind = "raise"

\* C15 amended: calculate_exercise_angles called with an exercise type
\* outside the known kinds raises nothing and returns None.
C15_UnknownKindReturnsNone ==
    (call.fn = "calculate_exercise_angles" /\ call.ex \notin KnownKinds
        /\ reply.kind # "none")
        => reply = [kind |-> "return", value |-> None]

C15_Witness ==
    /\ call.fn = "calculate_exercise_angles"
    /\ call.ex = "lunge"
    /\ call.kp = PoseBent
    /\ reply.kind = "return"
    /\ reply.value = None

\* the rule table of the four exercises, one message per check
C19_Expected(ex, cur, mean) ==
    CASE ex = "pushup" ->
           {m \in {"Go lower - bend elbows more"} :
               cur[1] + cur[2] > 2 * mean[1] + 20}
           \cup {m \in {"Keep back straight"} :
               cur[3] > mean[3] + 15 \/ cur[3] < mean[3] - 15}
           \cup {m \in {"Knees bent - keep legs straight"} :
               cur[4] + cur[5] > 2 * mean[4] + 20}
      [] ex = "pullup" ->
           {m \in {"Pull higher - bend the elbows more at top"} :
               cur[1] > mean[1] + 15}
           \cup {m \in {"Drive shoulders up - reach the bar higher"} :
               cur[2] > mean[2] + 15}
           \cup {m \in {"Control the descent - don't drop too fast"} :
               cur[2] < mean[2] - 20}
      [] ex = "squat" ->
           {m \in {"Go deeper - squat below parallel"} :
               cur[1] + cur[2] > 200}
           \cup {m \in {"Uneven knees - maintain symmetry"} :
               cur[1] > cur[2] + 15 \/ cur[2] > cur[1] + 15}
           \cup {m \in {"Push hips back more - proper hip hinge"} :
               cur[3] + cur[4] > 2 * mean[3] + 40}
           \cup {m \in {"Keep chest up - too much forward lean"} :
               cur[5] < mean[5] - 15}
           \cup {m \in {"Lean forward slightly - engage posterior chain"} :
               cur[5] > mean[5] + 15}
      [] ex = "tricep_dips" ->
           {m \in {"Go deeper - lower until elbows at 90 degrees"} :
               cur[1] + cur[2] > 220}
           \cup {m \in {"Uneven elbows - maintain symmetry"} :
               cur[1] > cur[2] + 15 \/ cur[2] > cur[1] + 15}
           \cup {m \in {"Keep chest up - don't lean too far forward"} :
               cur[3] + cur[4] < 2 * mean[3] - 30}
           \cup {m \in {"Keep elbows tucked - don't flare out"} :
               cur[1] + cur[2] < 2 * mean[1] - 40}

\* C19: for pushup, pullup, squat and tricep_dips, detect_mistakes returns
\* exactly the messages of the checks of the rule table whose condition
\* holds, each once.
C19_RuleTable ==
    (call.fn = "detect_mistakes" /\ reply.kind = "return"
        /\ call.ex \in {"pushup", "pullup", "squat", "tricep_dips"})
        => /\ Range(reply.value) = C19_Expected(call.ex, call.cur, call.mean)
           /\ Len(reply.value) =
                 Cardinality(C19_Expected(call.ex, call.cur, call.mean))

\* a pushup frame on the edge of every tolerance: no mistakes
C19_Witness ==
    /\ call.fn = "detect_mistakes"
    /\ call.ex = "pushup"
    /\ call.mean = [i \in 1..5 |-> 90]
    /\ call.cur = <<100, 100, 90, 100, 100>>
    /\ reply.kind = "return"
    /\ reply.value = <<>>

HipAlignmentMessages == {"Hips too high - lower your hips",
                         "Hips sagging - raise your hips"}

\* C20: for a plank, whatever the mean angles, a back angle below 165 gives
\* the hips-too-high message and a back angle from 165 to 180 gives no
\* hip-alignment message.
C20_PlankHips ==
    (call.fn = "detect_mistakes" /\ reply.kind = "return" /\ call.ex = "plank")
        => /\ call.cur[1] < 165
                => Range(reply.value) \cap HipAlignmentMessages
                      = {"Hips too high - lower your hips"}
           /\ call.cur[1] \in 165..180
                => Range(reply.value) \cap HipAlignmentMessages = {}

C20_Witness ==
    /\ call.fn = "detect_mistakes"
    /\ call.ex = "plank"
    /\ call.cur[1] = 164
    /\ call.mean[1] = 90
    /\ reply.kind = "return"
    /\ "Hips too high - lower your hips" \in Range(reply.value)

\* C16: two runs in flight never share mutable state: the output files they
\* have named are different paths, and the detector a run calls never holds
\* what it tracked in a frame of the other run.
C16_RunsAreIsolated ==
    \A v, w \in DOMAIN workers :
        v # w =>
            /\ (workers[v].output_filename # None
                  /\ workers[w].output_filename # None)
                 => workers[v].output_filename # workers[w].output_filename
            /\ workers[w].tracked # v

\* C21: calculate_angle returns, for any three points, coincident ones
\* included, a value from 0 to 180 degrees, and never raises.
C21_AngleInRange ==
    (call.fn = "calculate_angle" /\ reply.kind # "none")
        => /\ reply.kind = "return"
           /\ reply.value \in 0..180

\* the three points on one pixel
C21_Witness ==
    /\ call.fn = "calculate_angle"
    /\ call.a = call.b
    /\ call.b = call.c
    /\ reply.kind = "return"
    /\ reply.value = 90

\* C22 as stated: the input video is opened before the model files are
\* looked at, and no frame is read before the video is open and the model
\* is loaded.
C22_VideoOpensFirst ==
    /\ artifacts.checked => cap # "none"
    /\ frame_count > 0 => (artifacts.loaded /\ cap \in {"open", "released"})

\* C22 amended: the model is loaded before the input video is opened, a run
\* whose model is unavailable never opens the video, and no frame is read
\* before the model is loaded and the video is open.
C22_ModelLoadsFirst ==
    /\ cap # "none" => artifacts.loaded
    /\ (artifacts.checked /\ ~artifacts.loaded)
          => (pc = "done" /\ cap = "none" /\ frame_count = 0)
    /\ pc \in {"loop", "release"} => (artifacts.loaded /\ cap = "open")
    /\ frame_count > 0 => (artifacts.loaded /\ cap \in {"open", "released"})

\* the first frame was read, with the model loaded and the video open
C22_Witness ==
    /\ pc = "loop"
    /\ frame_count = 1
    /\ artifacts.loaded
    /\ cap = "open"

\* C23: a run on a video of finitely many frames ends, by returning or by
\* raising; row n of the history is the row of the n-th frame read, and the
\* frame count changes only in the loop, by one: after the read that failed
\* no frame is read.
C23_RunTerminates ==
    /\ <>(pc = "done" /\ outcome.kind \in {"return", "raise"})
    /\ [](\A n \in 1..Len(all_keypoints) :
             all_keypoints[n] = angle_row(LongFrame(n), exercise_type))
    /\ [][frame_count' # frame_count
            => (pc = "loop" /\ frame_count' = frame_count + 1
                  /\ Len(all_keypoints') = frame_count')]_vars

\* a run that read three frames and then came to the end of the video
C23_Witness ==
    /\ pc = "done"
    /\ outcome.kind = "return"
    /\ cap = "released"
    /\ frame_count = 3
    /\ Len(all_keypoints) = 3

\* C24: between two iterations of the loop the frames read, the rows of the
\* history, the accuracies and the frames written are equally many.
C24_CountsAgree ==
    pc = "loop"
        => /\ Len(all_keypoints) = frame_count
           /\ Len(frame_accuracies) = frame_count
           /\ written = frame_count

\* C25: for a plank, a frame without pose detection is given to
\* detect_mistakes as a zero row: it reports the hips-too-high message and
\* its accuracy is at most 90, and the result of a run with such a frame has
\* the message among its mistakes.
C25_UndetectedPlankFrame ==
    exercise_type = "plank"
        => /\ (det \in {"none", "error"} /\ frame_count >= 1
                 /\ Len(frame_accuracies) = frame_count)
                => /\ "Hips too high - lower your hips" \in Range(mistakes)
                   /\ LastAccuracy <= 90
           /\ (NonDegraded /\ detected < frame_count)
                => "Hips too high - lower your hips" \in Range(outcome.result.mistakes)

\* a plank video of one frame, not detected, the classifier certain
C25_Witness ==
    /\ exercise_type = "plank"
    /\ NonDegraded
    /\ frame_count = 1
    /\ detected = 0
    /\ prob_correct = 1000
    /\ "Hips too high - lower your hips" \in Range(outcome.result.mistakes)
    /\ LastAccuracy <= 90

\* C26: the back angle of a plank, as every angle calculate_angle returns,
\* is at most 180, and for such a back angle detect_mistakes never returns
\* the hips-sagging message: beyond 15 degrees from 180 only the
\* hips-too-high branch is left.
C26_NoSagging ==
    /\ (call.fn = "calculate_angle" /\ reply.kind = "return")
          => reply.value <= 180
    /\ (call.fn = "calculate_exercise_angles" /\ call.ex = "plank"
          /\ reply.kind = "return")
          => reply.value[1] <= 180
    /\ (call.fn = "detect_mistakes" /\ call.ex = "plank" /\ reply.kind = "return"
          /\ call.cur[1] <= 180)
          => /\ "Hips sagging - raise your hips" \notin Range(reply.value)
             /\ (call.cur[1] < 165 \/ call.cur[1] > 195)
                  => "Hips too high - lower your hips" \in Range(reply.value)

C26_Witness ==
    /\ call.fn = "detect_mistakes"
    /\ call.ex = "plank"
    /\ call.cur[1] = 140
    /\ call.mean = [i \in 1..3 |-> 170]
    /\ reply.kind = "return"
    /\ "Hips sagging - raise your hips" \notin Range(reply.value)
    /\ "Hips too high - lower your hips" \in Range(reply.value)

\* the most mistakes one frame can have, by exercise
C27_MostMistakes(ex) ==
    CASE ex \in {"pushup", "plank"} -> 3
      [] ex = "pullup" -> 2
      [] OTHER -> 4

\* C27: the list detect_mistakes returns for a frame has no string twice and
\* at most 4 entries, 3 for pushup and plank, 2 for pullup, whose two
\* shoulder messages never come together as squat's two back messages never
\* do; the penalty of 10 a mistake is at most 40.
C27_MistakesBounded ==
    (call.fn = "detect_mistakes" /\ reply.kind = "return")
        => /\ Cardinality(Range(reply.value)) = Len(reply.value)
           /\ Len(reply.value) <= C27_MostMistakes(call.ex)
           /\ 10 * Len(reply.value) <= 40
           /\ ~({"Drive shoulders up - reach the bar higher",
                 "Control the descent - don't drop too fast"}
                    \subseteq Range(reply.value))
           /\ ~({"Keep chest up - too much forward lean",
                 "Lean forward slightly - engage posterior chain"}
                    \subseteq Range(reply.value))

\* a tricep dip with all four mistakes
C27_Witness ==
    /\ call.fn = "detect_mistakes"
    /\ call.ex = "tricep_dips"
    /\ reply.kind = "return"
    /\ Len(reply.value) = 4

(***************************************************************************)
(* AuthManager's sessions (auth_utils.py).  The clock counts hours.  A     *)
(* session token is the number of its row: secrets.token_urlsafe(32) gives *)
(* every row a token of its own, and token 0 is one no row carries.        *)
(***************************************************************************)
MaxSessions == 2
MaxAuthHours == 24

UserIds == {1, 2}

SessionHours == 24
RememberDays == 30

\* hours the clock moves between two calls
ClockSteps == {SessionHours, RememberDays * 24 - SessionHours}

\* everything the session calls leave alone
authFrame == <<AI_AVAILABLE, exercise_type, pc, mean_angles, ioVars, loopVars,
               outcome, session, response, history, artifacts, workers,
               pose_user, user_level, user_challenges, user_achievements>>

InitAuth ==
    /\ AI_AVAILABLE = TRUE
    /\ exercise_type = "pushup"
    /\ InitRun
    /\ InitOther

\* datetime.utcnow() between two calls
AuthTick ==
    /\ now <= MaxAuthHours
    /\ \E d \in ClockSteps : now' = now + d
    /\ UNCHANGED <<authFrame, user_sessions, call, reply>>

\* the row filter_by(session_token = t, is_active = True).first() finds
ActiveSession(t) ==
    IF t \in DOMAIN user_sessions /\ user_sessions[t].is_active THEN t ELSE 0

\* the row filter_by(session_token = t).first() finds
AnySession(t) ==
    IF t \in DOMAIN user_sessions THEN t ELSE 0

CreateSession(u, remember_me) ==
    /\ Len(user_sessions) < MaxSessions
    /\ LET expires_at == IF remember_me THEN now + RememberDays * 24
                                        ELSE now + SessionHours
       IN  user_sessions' = Append(user_sessions,
               [user_id |-> u, expires_at |-> expires_at, is_active |-> TRUE])
    /\ call' = [fn |-> "create_session", user_id |-> u, at |-> now]
    /\ reply' = [kind |-> "token", token |-> Len(user_sessions) + 1]
    /\ UNCHANGED <<authFrame, now>>

\* validate_session with the row lookup of logout_session: is_active is not asked
ValidateSession_any_row(t) ==
    LET s == AnySession(t)
    IN  /\ call' = [fn |-> "validate_session", token |-> t, at |-> now]
        /\ IF s = 0
           THEN /\ reply' = [kind |-> "None"]
                /\ UNCHANGED user_sessions
           ELSE IF now > user_sessions[s].expires_at
           THEN /\ user_sessions' = [user_sessions EXCEPT ![s].is_active = FALSE]
                /\ reply' = [kind |-> "None"]
           ELSE /\ reply' = [kind |-> "user", user_id |-> user_sessions[s].user_id]
                /\ UNCHANGED user_sessions
        /\ UNCHANGED <<authFrame, now>>

ValidateSession(t) ==
    LET s == ActiveSession(t)
    IN  /\ call' = [fn |-> "validate_session", token |-> t, at |-> now]
        /\ IF s = 0
           THEN /\ reply' = [kind |-> "None"]
                /\ UNCHANGED user_sessions
           ELSE IF now > user_sessions[s].expires_at
           THEN /\ user_sessions' = [user_sessions EXCEPT ![s].is_active = FALSE]
                /\ reply' = [kind |-> "None"]
           ELSE /\ reply' = [kind |-> "user", user_id |-> user_sessions[s].user_id]
                /\ UNCHANGED user_sessions
        /\ UNCHANGED <<authFrame, now>>

LogoutSession(t) ==
    LET s == AnySession(t)
    IN  /\ call' = [fn |-> "logout_session", token |-> t, at |-> now]
        /\ reply' = [kind |-> "None"]
        /\ IF s = 0
           THEN UNCHANGED user_sessions
           ELSE user_sessions' = [user_sessions EXCEPT ![s].is_active = FALSE]
        /\ UNCHANGED <<authFrame, now>>

LogoutAllSessions(u) ==
    /\ call' = [fn |-> "logout_all_sessions", user_id |-> u, at |-> now]
    /\ reply' = [kind |-> "None"]
    /\ user_sessions' = [n \in DOMAIN user_sessions |->
          IF user_sessions[n].user_id = u /\ user_sessions[n].is_active
          THEN [user_sessions[n] EXCEPT !.is_active = FALSE]
          ELSE user_sessions[n]]
    /\ UNCHANGED <<authFrame, now>>

\* the tokens a caller presents: every issued one and one never issued
Tokens == 0..Len(user_sessions)

NextAuth ==
    \/ AuthTick
    \/ \E u \in UserIds : \E remember_me \in BOOLEAN : CreateSession(u, remember_me)
    \/ \E t \in Tokens : ValidateSession(t)
    \/ \E t \in Tokens : LogoutSession(t)
    \/ \E u \in UserIds : LogoutAllSessions(u)

SpecAuth == InitAuth /\ [][NextAuth]_vars

\* validate_session(t) was the last call and it gave a user back
ValidatedUser(t) ==
    /\ call.fn = "validate_session"
    /\ call.token = t
    /\ reply.kind = "user"

\* the last call ended session t: logout_session(t), or validate_session(t)
\* made past the expiry of the row
SessionEnded(t) ==
    /\ t \in DOMAIN user_sessions
    /\ call.fn \in {"logout_session", "validate_session"}
    /\ call.token = t
    /\ call.fn = "validate_session" => call.at > user_sessions[t].expires_at

(***************************************************************************)
(* C28: over any sequence of create_session, validate_session,             *)
(* logout_session and logout_all_sessions calls, no session's is_active    *)
(* goes from false to true; validate_session(token) gives a user back only *)
(* for an active session that is not past its expiry (and it is that       *)
(* session's user); and once logout_session(token) ran, or                 *)
(* validate_session(token) ran past the expiry, every later                *)
(* validate_session(token) gives None.                                     *)
(***************************************************************************)
C28_SessionsStayEnded ==
    /\ [][\A n \in DOMAIN user_sessions :
             ~user_sessions[n].is_active => ~user_sessions'[n].is_active]_vars
    /\ [](\A t \in 0..MaxSessions : ValidatedUser(t) =>
             /\ t \in DOMAIN user_sessions
             /\ user_sessions[t].is_active
             /\ call.at <= user_sessions[t].expires_at
             /\ reply.user_id = user_sessions[t].user_id)
    /\ \A t \in 1..MaxSessions :
          [](SessionEnded(t) => [](call.fn = "validate_session" /\ call.token = t
                                      => reply.kind = "None"))

\* a session was logged out, the same token was presented again before its
\* expiry and None came back
C28_Witness ==
    /\ call.fn = "validate_session"
    /\ call.token \in DOMAIN user_sessions
    /\ ~user_sessions[call.token].is_active
    /\ call.at <= user_sessions[call.token].expires_at
    /\ reply.kind = "None"

(***************************************************************************)
(* Levels, achievements and daily challenges (gamification.py and the      *)
(* complete-daily-challenge route of app.py) for one user.  An accuracy is *)
(* a whole percentage.  The cards award_cards draws are not part of the    *)
(* state: no experience point depends on them.                             *)
(***************************************************************************)
MaxWorkouts == 3

\* accuracies of a finished workout, on both sides of the perfect-form mark
Accuracies == {0, 94, 95, 100}

\* date.today() against last_workout_date
DayGaps == {"same", "next", "later"}

base_xp == 10
perfect_bonus == 25
perfect_accuracy == 95
challenge_xp_reward == 100

\* the rows initialize_gamification_data creates
achievements_data ==
    << [name |-> "First Steps", category |-> "volume", requirement |-> 1,
        xp_reward |-> 25],
       [name |-> "Perfect Form", category |-> "accuracy", requirement |-> 95,
        xp_reward |-> 50],
       [name |-> "Streak Master", category |-> "streak", requirement |-> 7,
        xp_reward |-> 100],
       [name |-> "Workout Warrior", category |-> "volume", requirement |-> 50,
        xp_reward |-> 200],
       [name |-> "Perfectionist", category |-> "perfect", requirement |-> 10,
        xp_reward |-> 150] >>

\* the daily_challenge rows there are; every other id finds no row
DailyChallenges == {1, 2}
ChallengeIds == DailyChallenges \cup {3}

get_next_level_xp(ul) == ul.level * 100

\* check_level_up that pays for the level with the experience points
check_level_up_subtracts(ul) ==
    IF ul.experience_points >= get_next_level_xp(ul)
    THEN [user_level |-> [ul EXCEPT !.level = @ + 1,
                                    !.experience_points = @ - get_next_level_xp(ul)],
          leveled_up |-> TRUE]
    ELSE [user_level |-> ul, leveled_up |-> FALSE]

check_level_up(ul) ==
    IF ul.experience_points >= get_next_level_xp(ul)
    THEN [user_level |-> [ul EXCEPT !.level = @ + 1], leveled_up |-> TRUE]
    ELSE [user_level |-> ul, leveled_up |-> FALSE]

\* sum(h.accuracy) / len(histories) >= requirement, 0 for no history
average_accuracy_reaches(rows, requirement) ==
    IF Len(rows) = 0
    THEN 0 >= requirement
    ELSE Sum([n \in 1..Len(rows) |-> rows[n].accuracy]) >= requirement * Len(rows)

check_achievement_requirement(achievement, ul, rows) ==
    CASE achievement.category = "streak" ->
            ul.streak_days >= achievement.requirement
      [] achievement.category = "volume" ->
            ul.total_workouts >= achievement.requirement
      [] achievement.category = "accuracy" ->
            /\ ul.total_workouts > 0
            /\ average_accuracy_reaches(rows, achievement.requirement)
      [] achievement.category = "perfect" ->
            ul.perfect_workouts >= achievement.requirement
      [] achievement.category = "level" ->
            ul.level >= achievement.requirement
      [] OTHER -> FALSE

\* the achievements the user has not got and now meets, and the level row
\* with their experience points added
check_achievements(ul, rows) ==
    LET new == {n \in DOMAIN achievements_data :
                   /\ achievements_data[n].name \notin user_achievements
                   /\ check_achievement_requirement(achievements_data[n], ul, rows)}
        xp  == Sum([n \in DOMAIN achievements_data |->
                   IF n \in new THEN achievements_data[n].xp_reward ELSE 0])
    IN  [user_level |-> [ul EXCEPT !.experience_points = @ + xp],
         new_achievements |-> {achievements_data[n].name : n \in new}]

update_streak(ul, gap) ==
    IF ul.last_workout_date = "None"
    THEN [ul EXCEPT !.streak_days = 1, !.last_workout_date = "set"]
    ELSE IF gap = "same" THEN ul
    ELSE IF gap = "next"
    THEN [ul EXCEPT !.streak_days = @ + 1, !.last_workout_date = "set"]
    ELSE [ul EXCEPT !.streak_days = 1, !.last_workout_date = "set"]

\* int(accuracy * 0.5)
accuracy_bonus(accuracy) == accuracy \div 2

\* everything the gamification leaves alone
gameFrame == <<AI_AVAILABLE, exercise_type, pc, mean_angles, ioVars, loopVars,
               outcome, session, response, artifacts, now, workers,
               pose_user, user_sessions>>

ExerciseHistoryRow(accuracy) ==
    [exercise_type |-> exercise_type, accuracy |-> accuracy,
     mistakes |-> <<>>, video_filename |-> "analyzed"]

\* app.py:1078-1094: the history row is committed, then the rewards
WorkoutRewards(accuracy, gap) ==
    /\ Len(history) < MaxWorkouts
    /\ history' = Append(history, ExerciseHistoryRow(accuracy))
    /\ LET total_xp == base_xp + accuracy_bonus(accuracy)
                       + (IF accuracy >= perfect_accuracy THEN perfect_bonus ELSE 0)
           stats == [user_level EXCEPT
                        !.experience_points = @ + total_xp,
                        !.total_workouts = @ + 1,
                        !.perfect_workouts =
                            IF accuracy >= perfect_accuracy THEN @ + 1 ELSE @]
           level_up == check_level_up(stats)
           awarded == check_achievements(level_up.user_level, history')
       IN  /\ user_level' = update_streak(awarded.user_level, gap)
           /\ user_achievements' = user_achievements \cup awarded.new_achievements
           /\ call' = [fn |-> "calculate_workout_rewards", accuracy |-> accuracy]
           /\ reply' = [kind |-> "rewards", xp_gained |-> total_xp,
                        level_up |-> level_up.leveled_up,
                        new_achievements |-> awarded.new_achievements]
    /\ UNCHANGED <<gameFrame, user_challenges>>

\* app.py:1099: the rewards raise after the row is committed; nothing of
\* them is committed
WorkoutRewardsFail(accuracy) ==
    /\ Len(history) < MaxWorkouts
    /\ history' = Append(history, ExerciseHistoryRow(accuracy))
    /\ call' = [fn |-> "calculate_workout_rewards", accuracy |-> accuracy]
    /\ reply' = [kind |-> "raise"]
    /\ UNCHANGED <<gameFrame, user_level, user_challenges, user_achievements>>

\* the route without its first check, as GamificationManager.complete_daily_challenge
CompleteDailyChallenge_unchecked(challenge_id) ==
    /\ call' = [fn |-> "complete_daily_challenge", challenge_id |-> challenge_id]
    /\ IF challenge_id \in DailyChallenges
       THEN LET awarded == [user_level EXCEPT
                               !.experience_points = @ + challenge_xp_reward]
                level_up_result == check_level_up(awarded)
            IN  /\ user_challenges' = user_challenges \cup {challenge_id}
                /\ user_level' = level_up_result.user_level
                /\ reply' = [kind |-> "redirect",
                             flash |-> IF level_up_result.leveled_up
                                       THEN "level_up" ELSE "completed"]
       ELSE /\ reply' = [kind |-> "redirect", flash |-> "none"]
            /\ UNCHANGED <<user_level, user_challenges>>
    /\ UNCHANGED <<gameFrame, history, user_achievements>>

CompleteDailyChallenge(challenge_id) ==
    /\ call' = [fn |-> "complete_daily_challenge", challenge_id |-> challenge_id]
    /\ IF challenge_id \in user_challenges
       THEN /\ reply' = [kind |-> "redirect", flash |-> "already"]
            /\ UNCHANGED <<user_level, user_challenges>>
       ELSE IF challenge_id \in DailyChallenges
       THEN LET awarded == [user_level EXCEPT
                               !.experience_points = @ + challenge_xp_reward]
                level_up_result == check_level_up(awarded)
            IN  /\ user_challenges' = user_challenges \cup {challenge_id}
                /\ user_level' = level_up_result.user_level
                /\ reply' = [kind |-> "redirect",
                             flash |-> IF level_up_result.leveled_up
                                       THEN "level_up" ELSE "completed"]
       \* no daily_challenge row: nothing is committed
       ELSE /\ reply' = [kind |-> "redirect", flash |-> "none"]
            /\ UNCHANGED <<user_level, user_challenges>>
    /\ UNCHANGED <<gameFrame, history, user_achievements>>

InitGame ==
    /\ AI_AVAILABLE = TRUE
    /\ exercise_type = "pushup"
    /\ InitRun
    /\ InitOther

NextGame ==
    \/ \E accuracy \in Accuracies : \E gap \in DayGaps : WorkoutRewards(accuracy, gap)
    \/ \E accuracy \in Accuracies : WorkoutRewardsFail(accuracy)
    \/ \E challenge_id \in ChallengeIds : CompleteDailyChallenge(challenge_id)

SpecGame == InitGame /\ [][NextGame]_vars

(***************************************************************************)
(* C29: over any sequence of requests to the complete-daily-challenge      *)
(* route handled one at a time, the reward of a challenge is given at most *)
(* once: a request for a challenge the user has completed changes neither  *)
(* experience points nor level; a request changes them only for a          *)
(* challenge not completed before, which it marks completed, and a         *)
(* completed challenge stays completed.                                    *)
(***************************************************************************)
C29_RewardOnce ==
    [][/\ user_challenges \subseteq user_challenges'
       /\ call'.fn = "complete_daily_challenge" =>
            /\ call'.challenge_id \in user_challenges =>
                  /\ user_level' = user_level
                  /\ reply'.flash = "already"
            /\ user_level' # user_level =>
                  /\ call'.challenge_id \notin user_challenges
                  /\ call'.challenge_id \in user_challenges'
                  /\ user_level'.experience_points =
                        user_level.experience_points + challenge_xp_reward]_vars

\* a request for a completed challenge was answered, the user holding the
\* reward of that challenge
C29_Witness ==
    /\ call.fn = "complete_daily_challenge"
    /\ reply.flash = "already"
    /\ call.challenge_id \in user_challenges
    /\ user_level.experience_points >= challenge_xp_reward

(***************************************************************************)
(* C30: across workout rewards, achievement awards and daily-challenge     *)
(* completions, experience_points and level never decrease; one            *)
(* check_level_up call raises level by at most 1 and leaves the            *)
(* experience points as they are, so no step raises the level by more than *)
(* 1 whatever the points are, and right after a level-up the points can    *)
(* still reach level * 100 (C30_Witness).                                  *)
(***************************************************************************)
C30_LevelsAndXpGrow ==
    /\ [][/\ user_level'.experience_points >= user_level.experience_points
          /\ user_level'.level >= user_level.level
          /\ user_level'.level <= user_level.level + 1]_vars
    /\ [](LET r == check_level_up(user_level)
          IN  /\ r.user_level.experience_points = user_level.experience_points
              /\ r.user_level.level =
                    IF r.leveled_up THEN user_level.level + 1 ELSE user_level.level
              /\ r.leveled_up <=>
                    user_level.experience_points >= get_next_level_xp(user_level))

\* a request levelled the user up and the points still reach the mark of the
\* new level
C30_Witness ==
    /\ call.fn = "complete_daily_challenge"
    /\ reply.flash = "level_up"
    /\ user_level.experience_points >= user_level.level * 100

====
